---- MODULE Spec2Model ----
(***************************************************************************)
(* Fixed-point interest accrual (src/x.py): apy_to_rate_per_second,        *)
(* compute_multiplier and calculate_interest.                              *)
(*                                                                         *)
(* Python integers are unbounded and the program's constants (WAD = 10^18) *)
(* and intermediate products (up to about 10^40) do not fit a machine      *)
(* word, so every Python int is modelled as a signed arbitrary-precision   *)
(* integer: a record [neg, mag] whose magnitude is a sequence of base-1000 *)
(* limbs, least significant first, without leading zero limbs.  The        *)
(* arithmetic operators below are Python's +, -, *, // (floor division)    *)
(* and comparisons on that representation.                                 *)
(***************************************************************************)
EXTENDS Integers, Sequences, FiniteSets, TLC

\* ------------------------------------------------------------ magnitudes

Radix == 1000

Limb(m, i) == IF i <= Len(m) THEN m[i] ELSE 0

RECURSIVE Trim(_)
Trim(m) ==
    IF m = <<>> THEN <<>>
    ELSE IF m[Len(m)] = 0 THEN Trim(SubSeq(m, 1, Len(m) - 1))
    ELSE m

RECURSIVE NatMag(_)
NatMag(n) == IF n = 0 THEN <<>> ELSE <<n % Radix>> \o NatMag(n \div Radix)

RECURSIVE CmpFrom(_, _, _)
CmpFrom(a, b, i) ==
    IF i = 0 THEN 0
    ELSE IF a[i] < b[i] THEN -1
    ELSE IF a[i] > b[i] THEN 1
    ELSE CmpFrom(a, b, i - 1)

\* -1, 0 or 1 as a < b, a = b, a > b
CmpMag(a, b) ==
    IF Len(a) < Len(b) THEN -1
    ELSE IF Len(a) > Len(b) THEN 1
    ELSE CmpFrom(a, b, Len(a))

RECURSIVE AddFrom(_, _, _, _)
AddFrom(a, b, i, carry) ==
    IF i > Len(a) /\ i > Len(b)
    THEN (IF carry = 0 THEN <<>> ELSE <<carry>>)
    ELSE LET x == Limb(a, i) + Limb(b, i) + carry
         IN  <<x % Radix>> \o AddFrom(a, b, i + 1, x \div Radix)

AddMag(a, b) == AddFrom(a, b, 1, 0)

RECURSIVE SubFrom(_, _, _, _)
SubFrom(a, b, i, borrow) ==
    IF i > Len(a) THEN <<>>
    ELSE LET x == a[i] - Limb(b, i) - borrow
         IN  IF x < 0 THEN <<x + Radix>> \o SubFrom(a, b, i + 1, 1)
             ELSE <<x>> \o SubFrom(a, b, i + 1, 0)

\* a - b for a >= b
SubMag(a, b) == Trim(SubFrom(a, b, 1, 0))

RECURSIVE MulSmallFrom(_, _, _, _)
MulSmallFrom(a, d, i, carry) ==
    IF i > Len(a)
    THEN (IF carry = 0 THEN <<>> ELSE <<carry>>)
    ELSE LET x == a[i] * d + carry
         IN  <<x % Radix>> \o MulSmallFrom(a, d, i + 1, x \div Radix)

\* a * d for one limb d
MulSmall(a, d) == Trim(MulSmallFrom(a, d, 1, 0))

ShiftMag(m) == IF m = <<>> THEN <<>> ELSE <<0>> \o m

\* a * (the limbs j and below of b) + acc * Radix^j, by Horner's rule from the
\* most significant limb of b; each partial sum is evaluated before the next
RECURSIVE MulFrom(_, _, _, _)
MulAcc(a, b, j, next) == IF next = next THEN MulFrom(a, b, j - 1, next) ELSE next

MulFrom(a, b, j, acc) ==
    IF j = 0 THEN acc
    ELSE MulAcc(a, b, j, AddMag(MulSmall(a, b[j]), ShiftMag(acc)))

MulMag(a, b) == MulFrom(a, b, Len(b), <<>>)

\* the largest d in lo..hi with b * d <= cur
RECURSIVE QSearch(_, _, _, _)
QProbe(cur, b, lo, hi, mid) ==
    IF CmpMag(MulSmall(b, mid), cur) <= 0
    THEN QSearch(cur, b, mid, hi)
    ELSE QSearch(cur, b, lo, mid - 1)

QSearch(cur, b, lo, hi) ==
    IF lo >= hi THEN lo ELSE QProbe(cur, b, lo, hi, (lo + hi + 1) \div 2)

\* the value of the limbs of m above the lowest sh (at most three of them)
TopVal(m, sh) ==
    Limb(m, sh + 1) + Radix * Limb(m, sh + 2) + Radix * Radix * Limb(m, sh + 3)

QBracket(cur, b, sh, cTop, bTop) ==
    IF sh = 0 THEN cTop \div bTop
    ELSE QSearch(cur, b, cTop \div (bTop + 1),
                 IF cTop \div bTop < Radix THEN cTop \div bTop ELSE Radix - 1)

QTop(cur, b, sh) == QBracket(cur, b, sh, TopVal(cur, sh), TopVal(b, sh))

\* the quotient digit of cur by b, for cur < Radix * b: the leading limbs of
\* both bracket it, and the search settles it
QDigit(cur, b) ==
    IF CmpMag(cur, b) < 0 THEN 0
    ELSE QTop(cur, b, IF Len(b) > 2 THEN Len(b) - 2 ELSE 0)

\* schoolbook long division from limb i of a downwards: rem is the running
\* remainder and q the quotient limbs found so far, most significant first;
\* each digit and remainder is evaluated before the next step
RECURSIVE DivFrom(_, _, _, _, _)
DivNext(a, b, i, q, next) ==
    IF next = next /\ q = q THEN DivFrom(a, b, i - 1, next, q) ELSE <<>>

DivDigit(a, b, i, q, cur, d) ==
    DivNext(a, b, i, <<d>> \o q, SubMag(cur, MulSmall(b, d)))

DivStep(a, b, i, q, cur) == DivDigit(a, b, i, q, cur, QDigit(cur, b))

DivFrom(a, b, i, rem, q) ==
    IF i = 0 THEN [q |-> Trim(q), r |-> rem]
    ELSE DivStep(a, b, i, q, Trim(<<a[i]>> \o rem))

\* quotient and remainder of a by b, b # 0
DivModMag(a, b) == DivFrom(a, b, Len(a), <<>>, <<>>)

\* ------------------------------------------------------- Python integers

Mk(neg, mag) == [neg |-> neg /\ mag # <<>>, mag |-> mag]

\* the Python int with the value of the (small) integer n
PyInt(n) == IF n < 0 THEN Mk(TRUE, NatMag(-n)) ELSE Mk(FALSE, NatMag(n))

RECURSIVE Reverse(_)
Reverse(s) == IF s = <<>> THEN <<>> ELSE Append(Reverse(Tail(s)), Head(s))

\* a literal written as in the source, in groups of three digits: 31_536_000
Lit(groups) == Mk(FALSE, Trim(Reverse(groups)))

Zero == PyInt(0)

Only(S) == CHOOSE r \in S : TRUE

NegV(x) == Mk(~x.neg, x.mag)

AddV(x, y) ==
    IF x.neg = y.neg THEN Mk(x.neg, AddMag(x.mag, y.mag))
    ELSE IF CmpMag(x.mag, y.mag) >= 0 THEN Mk(x.neg, SubMag(x.mag, y.mag))
    ELSE Mk(y.neg, SubMag(y.mag, x.mag))

MulV(x, y) == Mk(x.neg # y.neg, MulMag(x.mag, y.mag))

\* the floor of a quotient of sign neg with magnitude dm.q and remainder dm.r
FloorOf(neg, dm) ==
    IF ~neg THEN Mk(FALSE, dm.q)
    ELSE IF dm.r = <<>> THEN Mk(TRUE, dm.q)
    ELSE Mk(TRUE, AddMag(dm.q, <<1>>))

FloorDivV(x, y) == FloorOf(x.neg # y.neg, DivModMag(x.mag, y.mag))

LtV(x, y) ==
    IF x.neg # y.neg THEN x.neg
    ELSE IF x.neg THEN CmpMag(x.mag, y.mag) > 0
    ELSE CmpMag(x.mag, y.mag) < 0

\* Python's operators.  As in Python, the operands a and b are evaluated
\* first, once each, and the operation is applied to their values x and y.

Neg(a) == Only({NegV(x) : x \in {a}})

Add(a, b) == Only({AddV(x, y) : x \in {a}, y \in {b}})

Sub(a, b) == Only({AddV(x, NegV(y)) : x \in {a}, y \in {b}})

Mul(a, b) == Only({MulV(x, y) : x \in {a}, y \in {b}})

\* a // b: the floor of the quotient, b # 0
FloorDiv(a, b) == Only({FloorDivV(x, y) : x \in {a}, y \in {b}})

Lt(a, b) == Only({LtV(x, y) : x \in {a}, y \in {b}})

Leq(a, b) == Only({x = y \/ LtV(x, y) : x \in {a}, y \in {b}})

Gt(a, b) == Lt(b, a)

\* ------------------------------------------------------------ src/x.py

WAD == Lit(<<1, 0, 0, 0, 0, 0, 0>>)

BASE == Lit(<<1, 0, 0, 0>>)

SECONDS_PER_YEAR == Lit(<<31, 536, 0>>)

apy_to_rate_per_second(apy) ==
    LET numerator   == Mul(apy, WAD)
        denominator == Mul(PyInt(1000), SECONDS_PER_YEAR)
    IN  FloorDiv(numerator, denominator)

\* res initialised at the rate's scale instead of the multiplier's
res_init_wad == WAD

\* line 17: the multiplier of no growth
res_init == BASE

\* the square rescaled by BASE instead of WAD
base_power_two_base(rate) == FloorDiv(Mul(rate, rate), BASE)

\* line 25
base_power_two_of(rate) == FloorDiv(Mul(rate, rate), WAD)

\* line 29
second_term_of(temp, base_power_two) == FloorDiv(Mul(temp, base_power_two), PyInt(2))

\* the offset subtracted instead of added
res_of_minus(offset) == Sub(BASE, offset)

\* line 33
res_of(offset) == Add(BASE, offset)

compute_multiplier(rate_per_second, dt) ==
    LET diff == FloorDiv(WAD, BASE)
        exp_minus_one == Sub(dt, PyInt(1))
        exp_minus_two == IF Gt(dt, PyInt(2)) THEN Sub(dt, PyInt(2)) ELSE PyInt(0)
        dt_u128 == dt
        rate == rate_per_second
        base_power_two == base_power_two_of(rate)
        base_power_three == FloorDiv(Mul(base_power_two, rate), WAD)
        temp == Mul(dt_u128, exp_minus_one)
        second_term == second_term_of(temp, base_power_two)
        third_term == FloorDiv(Mul(Mul(temp, exp_minus_two), base_power_three), PyInt(6))
        offset == FloorDiv(Add(Add(Mul(dt_u128, rate), second_term), third_term), diff)
    IN  IF dt # Zero THEN res_of(offset) ELSE res_init

\* the branch taken on != instead of >
accrues_ne(start_epoch, current_epoch) == current_epoch # start_epoch

\* line 48
accrues(start_epoch, current_epoch) == Gt(current_epoch, start_epoch)

\* the epoch difference taken as seconds, epoch_duration forgotten
elapsed_time_epochs(start_epoch, current_epoch, epoch_duration) ==
    Sub(current_epoch, start_epoch)

\* start_epoch subtracted without scaling it to seconds
elapsed_time_unscaled_start(start_epoch, current_epoch, epoch_duration) ==
    Sub(Mul(current_epoch, epoch_duration), start_epoch)

\* lines 49-51
elapsed_time(start_epoch, current_epoch, epoch_duration) ==
    LET start_time == Mul(start_epoch, epoch_duration)
        current_time == Mul(current_epoch, epoch_duration)
    IN  Sub(current_time, start_time)

\* the product rescaled by WAD instead of BASE
interest_of_wad(principal, multiplier) == FloorDiv(Mul(principal, multiplier), WAD)

\* line 55
interest_of(principal, multiplier) ==
    FloorDiv(Mul(principal, multiplier), Lit(<<1, 0, 0, 0>>))

calculate_interest(principal, start_epoch, current_epoch, epoch_duration, interest_rate) ==
    LET rate_per_second == apy_to_rate_per_second(interest_rate)
        dt == elapsed_time(start_epoch, current_epoch, epoch_duration)
        multiplier == compute_multiplier(rate_per_second, dt)
    IN  IF accrues(start_epoch, current_epoch)
        THEN interest_of(principal, multiplier)
        ELSE principal

\* ---------------------------------------------------- __main__ (Test 1)

EPOCH_DURATION == PyInt(600)

EPOCH_YEARS == FloorDiv(Lit(<<31, 536, 0>>), EPOCH_DURATION)

TestPrincipal == Mul(PyInt(1000), WAD)

TestRate == PyInt(40)

\* the largest interest_rate whose per-second rate is below 10^9
LinearRate == PyInt(31)

Args(p, s, c, d, r) ==
    [principal |-> p, start_epoch |-> s, current_epoch |-> c,
     epoch_duration |-> d, interest_rate |-> r]

Test1 == Args(TestPrincipal, PyInt(0), EPOCH_YEARS, EPOCH_DURATION, TestRate)

\* ------------------------------------------------------------- the callers

VARIABLES
    call,     \* call[i]: the API operation caller i invokes and its arguments
    result,   \* result[i]: what that call returned, None before it was made
    pc,       \* pc[t]: the source line thread t executes next
    frame,    \* frame[t]: the local variables of thread t's active functions
    ret       \* ret[t]: what thread t's calculate_interest call returned

vars == <<call, result, pc, frame, ret>>

None == [none |-> TRUE]

Calls == {1, 2}

\* bounds of the enumerated arguments
MaxEpoch == 2
MaxShift == 1
MaxDuration == 1
MaxPrincipal == 1
MaxInterestRate == 1
MaxSmallRate == 1
MaxDt == 3
MaxApy == 33

Epochs == {PyInt(e) : e \in (-1)..MaxEpoch}

Shifts == {PyInt(k) : k \in (-MaxShift)..MaxShift}

Durations == {PyInt(d) : d \in (-1)..MaxDuration} \cup {EPOCH_DURATION}

Principals == {PyInt(p) : p \in (-1)..MaxPrincipal} \cup {TestPrincipal}

InterestRates == {PyInt(r) : r \in (-1)..MaxInterestRate} \cup {TestRate}

Apys == {PyInt(a) : a \in (-1)..MaxApy}

\* per-second rates on both sides of the points where rate^2 // WAD and
\* rate^3 // WAD^2 leave zero
Rates ==
    {PyInt(r) : r \in (-1)..MaxSmallRate}
        \cup {Sub(BASE, PyInt(1)), BASE, apy_to_rate_per_second(LinearRate),
              apy_to_rate_per_second(TestRate),
              Mul(PyInt(2), BASE), Mul(PyInt(1000), BASE), WAD}

Dts == {PyInt(d) : d \in (-1)..MaxDt} \cup {SECONDS_PER_YEAR}

InterestInputs ==
    {Args(p, s, c, d, r) : p \in Principals, s \in Epochs, c \in Epochs,
                           d \in Durations, r \in InterestRates} \cup {Test1}

Shifted(a, k) ==
    [a EXCEPT !.start_epoch = Add(a.start_epoch, k),
              !.current_epoch = Add(a.current_epoch, k)]

Returned(i) == result[i] # None

NumThreads == 2

Threads == 1..NumThreads

NoThreads ==
    /\ pc = [t \in Threads |-> "idle"]
    /\ frame = [t \in Threads |-> None]
    /\ ret = [t \in Threads |-> None]

RateCalls == {[fn |-> "apy_to_rate_per_second", apy |-> a] : a \in Apys}

MultiplierCalls ==
    {[fn |-> "compute_multiplier", rate_per_second |-> r, dt |-> d] :
        r \in Rates, d \in Dts}

\* two calls, each of apy_to_rate_per_second or of compute_multiplier
InitPure == call \in [Calls -> RateCalls \cup MultiplierCalls]

\* two calls of calculate_interest on one position, the epochs of the later
\* calls counted from another origin
InitInterest ==
    \E a \in InterestInputs, k \in [Calls -> Shifts] :
        call = [i \in Calls |->
                   [fn |-> "calculate_interest",
                    args |-> IF i = 1 THEN a ELSE Shifted(a, k[i])]]

Init ==
    /\ InitPure \/ InitInterest
    /\ result = [i \in Calls |-> None]
    /\ NoThreads

Return(i, value) ==
    /\ result' = [result EXCEPT ![i] = value]
    /\ UNCHANGED <<call, pc, frame, ret>>

Call_apy_to_rate_per_second(i) ==
    /\ call[i].fn = "apy_to_rate_per_second"
    /\ ~Returned(i)
    /\ Return(i, apy_to_rate_per_second(call[i].apy))

Call_compute_multiplier(i) ==
    /\ call[i].fn = "compute_multiplier"
    /\ ~Returned(i)
    /\ Return(i, compute_multiplier(call[i].rate_per_second, call[i].dt))

Call_calculate_interest(i) ==
    /\ call[i].fn = "calculate_interest"
    /\ ~Returned(i)
    /\ LET a == call[i].args
       IN  Return(i, calculate_interest(a.principal, a.start_epoch, a.current_epoch,
                                        a.epoch_duration, a.interest_rate))

Idle ==
    /\ call = [i \in Calls |-> [fn |-> "idle"]]
    /\ result = [i \in Calls |-> None]

\* --------------------------------------- calls interleaved line by line

NewCalculateInterest(a) ==
    [principal |-> a.principal, start_epoch |-> a.start_epoch,
     current_epoch |-> a.current_epoch, epoch_duration |-> a.epoch_duration,
     interest_rate |-> a.interest_rate,
     rate_per_second |-> None, interest |-> None, start_time |-> None,
     current_time |-> None, dt |-> None, multiplier |-> None]

NewApyToRate(apy) == [apy |-> apy, numerator |-> None, denominator |-> None]

NewComputeMultiplier(rate_per_second, dt) ==
    [rate_per_second |-> rate_per_second, dt |-> dt, diff |-> None, res |-> None,
     exp_minus_one |-> None, exp_minus_two |-> None, dt_u128 |-> None,
     rate |-> None, base_power_two |-> None, base_power_three |-> None,
     temp |-> None, second_term |-> None, third_term |-> None, offset |-> None]

ConcInputs ==
    {Test1,
     Args(TestPrincipal, PyInt(0), PyInt(1), EPOCH_DURATION, PyInt(42)),
     Args(PyInt(1), PyInt(1), PyInt(1), EPOCH_DURATION, TestRate)}

InitConc ==
    /\ Idle
    /\ \E a \in [Threads -> ConcInputs] :
           frame = [t \in Threads |->
                       [ci |-> NewCalculateInterest(a[t]), apy |-> None, cm |-> None]]
    /\ pc = [t \in Threads |-> "L45"]
    /\ ret = [t \in Threads |-> None]

\* thread t executes the statement at `from` and goes on at `to` with frame f
Step(t, from, to, f) ==
    /\ pc[t] = from
    /\ pc' = [pc EXCEPT ![t] = to]
    /\ frame' = [frame EXCEPT ![t] = f]
    /\ UNCHANGED <<call, result, ret>>

\* line 45, the call: binds apy (lines 5-6 set the callee's constants)
calculate_interest_L45(t) ==
    LET f == frame[t]
    IN  Step(t, "L45", "L8", [f EXCEPT !.apy = NewApyToRate(f.ci.interest_rate)])

apy_to_rate_per_second_L8(t) ==
    LET f == frame[t]
    IN  Step(t, "L8", "L9", [f EXCEPT !.apy.numerator = Mul(f.apy.apy, WAD)])

apy_to_rate_per_second_L9(t) ==
    LET f == frame[t]
    IN  Step(t, "L9", "L10",
             [f EXCEPT !.apy.denominator = Mul(PyInt(1000), SECONDS_PER_YEAR)])

\* line 10 returns into the assignment of line 45
apy_to_rate_per_second_L10(t) ==
    LET f == frame[t]
    IN  Step(t, "L10", "L46",
             [f EXCEPT !.ci.rate_per_second =
                           FloorDiv(f.apy.numerator, f.apy.denominator),
                       !.apy = None])

calculate_interest_L46(t) ==
    LET f == frame[t]
    IN  Step(t, "L46", "L48", [f EXCEPT !.ci.interest = f.ci.principal])

calculate_interest_L48(t) ==
    LET f == frame[t]
    IN  Step(t, "L48",
             IF accrues(f.ci.start_epoch, f.ci.current_epoch) THEN "L49" ELSE "L57", f)

calculate_interest_L49(t) ==
    LET f == frame[t]
    IN  Step(t, "L49", "L50",
             [f EXCEPT !.ci.start_time = Mul(f.ci.start_epoch, f.ci.epoch_duration)])

calculate_interest_L50(t) ==
    LET f == frame[t]
    IN  Step(t, "L50", "L51",
             [f EXCEPT !.ci.current_time = Mul(f.ci.current_epoch, f.ci.epoch_duration)])

calculate_interest_L51(t) ==
    LET f == frame[t]
    IN  Step(t, "L51", "L53",
             [f EXCEPT !.ci.dt = Sub(f.ci.current_time, f.ci.start_time)])

\* line 53, the call: binds rate_per_second and dt (lines 14-15 set the constants)
calculate_interest_L53(t) ==
    LET f == frame[t]
    IN  Step(t, "L53", "L16",
             [f EXCEPT !.cm = NewComputeMultiplier(f.ci.rate_per_second, f.ci.dt)])

compute_multiplier_L16(t) ==
    LET f == frame[t]
    IN  Step(t, "L16", "L17", [f EXCEPT !.cm.diff = FloorDiv(WAD, BASE)])

compute_multiplier_L17(t) ==
    LET f == frame[t]
    IN  Step(t, "L17", "L19", [f EXCEPT !.cm.res = res_init])

compute_multiplier_L19(t) ==
    LET f == frame[t]
    IN  Step(t, "L19", IF f.cm.dt # Zero THEN "L20" ELSE "L35", f)

compute_multiplier_L20(t) ==
    LET f == frame[t]
    IN  Step(t, "L20", "L21", [f EXCEPT !.cm.exp_minus_one = Sub(f.cm.dt, PyInt(1))])

compute_multiplier_L21(t) ==
    LET f == frame[t]
    IN  Step(t, "L21", "L22",
             [f EXCEPT !.cm.exp_minus_two =
                           IF Gt(f.cm.dt, PyInt(2)) THEN Sub(f.cm.dt, PyInt(2))
                           ELSE PyInt(0)])

compute_multiplier_L22(t) ==
    LET f == frame[t]
    IN  Step(t, "L22", "L24", [f EXCEPT !.cm.dt_u128 = f.cm.dt])

compute_multiplier_L24(t) ==
    LET f == frame[t]
    IN  Step(t, "L24", "L25", [f EXCEPT !.cm.rate = f.cm.rate_per_second])

compute_multiplier_L25(t) ==
    LET f == frame[t]
    IN  Step(t, "L25", "L26",
             [f EXCEPT !.cm.base_power_two = base_power_two_of(f.cm.rate)])

compute_multiplier_L26(t) ==
    LET f == frame[t]
    IN  Step(t, "L26", "L28",
             [f EXCEPT !.cm.base_power_three =
                           FloorDiv(Mul(f.cm.base_power_two, f.cm.rate), WAD)])

compute_multiplier_L28(t) ==
    LET f == frame[t]
    IN  Step(t, "L28", "L29",
             [f EXCEPT !.cm.temp = Mul(f.cm.dt_u128, f.cm.exp_minus_one)])

compute_multiplier_L29(t) ==
    LET f == frame[t]
    IN  Step(t, "L29", "L30",
             [f EXCEPT !.cm.second_term =
                           second_term_of(f.cm.temp, f.cm.base_power_two)])

compute_multiplier_L30(t) ==
    LET f == frame[t]
    IN  Step(t, "L30", "L32",
             [f EXCEPT !.cm.third_term =
                           FloorDiv(Mul(Mul(f.cm.temp, f.cm.exp_minus_two),
                                        f.cm.base_power_three), PyInt(6))])

compute_multiplier_L32(t) ==
    LET f == frame[t]
    IN  Step(t, "L32", "L33",
             [f EXCEPT !.cm.offset =
                           FloorDiv(Add(Add(Mul(f.cm.dt_u128, f.cm.rate),
                                            f.cm.second_term), f.cm.third_term),
                                    f.cm.diff)])

compute_multiplier_L33(t) ==
    LET f == frame[t]
    IN  Step(t, "L33", "L35", [f EXCEPT !.cm.res = res_of(f.cm.offset)])

\* multiplier kept in one module-level variable that every call writes
compute_multiplier_L35_global(t) ==
    /\ pc[t] = "L35"
    /\ pc' = [pc EXCEPT ![t] = "L55"]
    /\ frame' = [u \in Threads |->
                    IF u = t
                    THEN [frame[u] EXCEPT !.ci.multiplier = frame[t].cm.res, !.cm = None]
                    ELSE [frame[u] EXCEPT !.ci.multiplier = frame[t].cm.res]]
    /\ UNCHANGED <<call, result, ret>>

\* line 35 returns into the assignment of line 53
compute_multiplier_L35(t) ==
    LET f == frame[t]
    IN  Step(t, "L35", "L55", [f EXCEPT !.ci.multiplier = f.cm.res, !.cm = None])

calculate_interest_L55(t) ==
    LET f == frame[t]
    IN  Step(t, "L55", "L57",
             [f EXCEPT !.ci.interest = interest_of(f.ci.principal, f.ci.multiplier)])

calculate_interest_L57(t) ==
    /\ pc[t] = "L57"
    /\ pc' = [pc EXCEPT ![t] = "done"]
    /\ ret' = [ret EXCEPT ![t] = frame[t].ci.interest]
    /\ UNCHANGED <<call, result, frame>>

NextConc ==
    \E t \in Threads :
        \/ calculate_interest_L45(t)
        \/ apy_to_rate_per_second_L8(t)
        \/ apy_to_rate_per_second_L9(t)
        \/ apy_to_rate_per_second_L10(t)
        \/ calculate_interest_L46(t)
        \/ calculate_interest_L48(t)
        \/ calculate_interest_L49(t)
        \/ calculate_interest_L50(t)
        \/ calculate_interest_L51(t)
        \/ calculate_interest_L53(t)
        \/ compute_multiplier_L16(t)
        \/ compute_multiplier_L17(t)
        \/ compute_multiplier_L19(t)
        \/ compute_multiplier_L20(t)
        \/ compute_multiplier_L21(t)
        \/ compute_multiplier_L22(t)
        \/ compute_multiplier_L24(t)
        \/ compute_multiplier_L25(t)
        \/ compute_multiplier_L26(t)
        \/ compute_multiplier_L28(t)
        \/ compute_multiplier_L29(t)
        \/ compute_multiplier_L30(t)
        \/ compute_multiplier_L32(t)
        \/ compute_multiplier_L33(t)
        \/ compute_multiplier_L35(t)
        \/ calculate_interest_L55(t)
        \/ calculate_interest_L57(t)

SpecConc == InitConc /\ [][NextConc]_vars

Next ==
    \E i \in Calls :
        \/ Call_apy_to_rate_per_second(i)
        \/ Call_compute_multiplier(i)
        \/ Call_calculate_interest(i)

Spec == Init /\ [][Next]_vars

\* ------------------------------------------------------------ the claims

InterestReturned(i) == call[i].fn = "calculate_interest" /\ Returned(i)

MultiplierReturned(i) == call[i].fn = "compute_multiplier" /\ Returned(i)

RateReturned(i) == call[i].fn = "apy_to_rate_per_second" /\ Returned(i)

\* C1: a calculate_interest call whose current_epoch is equal to or earlier
\* than its start_epoch (the case start_epoch = current_epoch = 0 included)
\* returns exactly its principal, whatever the principal, the rate and the
\* epoch duration are.
C1_NoAccrual ==
    \A i \in Calls :
        (/\ InterestReturned(i)
         /\ Leq(call[i].args.current_epoch, call[i].args.start_epoch))
            => result[i] = call[i].args.principal

\* a call one epoch before its start, with a positive rate and duration, has
\* returned the principal
C1_Witness ==
    \E i \in Calls :
        /\ InterestReturned(i)
        /\ call[i].args.principal = TestPrincipal
        /\ call[i].args.interest_rate = TestRate
        /\ call[i].args.epoch_duration = EPOCH_DURATION
        /\ Lt(call[i].args.current_epoch, call[i].args.start_epoch)
        /\ result[i] = TestPrincipal

\* C2: with principal >= 0, interest_rate >= 0, epoch_duration > 0 and
\* current_epoch > start_epoch >= 0, calculate_interest returns at least the
\* principal.
C2_NeverBelowPrincipal ==
    \A i \in Calls :
        (/\ InterestReturned(i)
         /\ Leq(Zero, call[i].args.principal)
         /\ Leq(Zero, call[i].args.interest_rate)
         /\ Gt(call[i].args.epoch_duration, Zero)
         /\ Leq(Zero, call[i].args.start_epoch)
         /\ Gt(call[i].args.current_epoch, call[i].args.start_epoch))
            => Leq(call[i].args.principal, result[i])

\* a call over two epochs of 600 s at 4.0% has returned more than its principal
C2_Witness ==
    \E i \in Calls :
        /\ InterestReturned(i)
        /\ call[i].args.principal = TestPrincipal
        /\ call[i].args.interest_rate = TestRate
        /\ call[i].args.epoch_duration = EPOCH_DURATION
        /\ call[i].args.start_epoch = Zero
        /\ call[i].args.current_epoch = PyInt(2)
        /\ Gt(result[i], TestPrincipal)

\* C3: for one rate_per_second >= 0, a compute_multiplier call with the
\* smaller dt >= 0 returns no more than the call with the larger dt.
C3_MonotoneInTime ==
    \A i, j \in Calls :
        (/\ MultiplierReturned(i)
         /\ MultiplierReturned(j)
         /\ call[i].rate_per_second = call[j].rate_per_second
         /\ Leq(Zero, call[i].rate_per_second)
         /\ Leq(Zero, call[i].dt)
         /\ Lt(call[i].dt, call[j].dt))
            => Leq(result[i], result[j])

\* two calls at the rate 10^18 across the clamp of exp_minus_two (dt = 2 and
\* dt = 3) have returned, the later one strictly more
C3_Witness ==
    \E i, j \in Calls :
        /\ MultiplierReturned(i)
        /\ MultiplierReturned(j)
        /\ call[i].rate_per_second = WAD
        /\ call[j].rate_per_second = WAD
        /\ call[i].dt = PyInt(2)
        /\ call[j].dt = PyInt(3)
        /\ Lt(result[i], result[j])

\* C4: for one dt > 0, a compute_multiplier call with the smaller
\* rate_per_second >= 0 returns no more than the call with the larger rate.
C4_MonotoneInRate ==
    \A i, j \in Calls :
        (/\ MultiplierReturned(i)
         /\ MultiplierReturned(j)
         /\ call[i].dt = call[j].dt
         /\ Gt(call[i].dt, Zero)
         /\ Leq(Zero, call[i].rate_per_second)
         /\ Lt(call[i].rate_per_second, call[j].rate_per_second))
            => Leq(result[i], result[j])

\* two calls over one year, at the rates on the two sides of the point where
\* rate * rate // WAD leaves zero, have returned, the higher rate strictly more
C4_Witness ==
    \E i, j \in Calls :
        /\ MultiplierReturned(i)
        /\ MultiplierReturned(j)
        /\ call[i].dt = SECONDS_PER_YEAR
        /\ call[j].dt = SECONDS_PER_YEAR
        /\ call[i].rate_per_second = Sub(BASE, PyInt(1))
        /\ call[j].rate_per_second = BASE
        /\ Lt(result[i], result[j])

\* C5: a compute_multiplier call with dt = 0 returns exactly BASE, whatever
\* the rate.
C5_NoTimeElapsed ==
    \A i \in Calls :
        (MultiplierReturned(i) /\ call[i].dt = Zero) => result[i] = BASE

\* a call with dt = 0 at the rate 10^18 has returned
C5_Witness ==
    \E i \in Calls :
        /\ MultiplierReturned(i)
        /\ call[i].dt = Zero
        /\ call[i].rate_per_second = WAD

\* C6: the call of Test 1 (4.0%, one year of 600 s epochs, 1000 tokens)
\* returns more than its principal, and the interest earned is 40.81 tokens
\* to two decimal places: at least 40.805 * 10^18 and less than 40.815 * 10^18.
C6_Test1Compound ==
    \A i \in Calls :
        (InterestReturned(i) /\ call[i].args = Test1)
            => /\ Gt(result[i], TestPrincipal)
               /\ Leq(Lit(<<40, 805, 0, 0, 0, 0, 0>>), Sub(result[i], TestPrincipal))
               /\ Lt(Sub(result[i], TestPrincipal), Lit(<<40, 815, 0, 0, 0, 0, 0>>))

\* C8: with epoch_duration = 0 and current_epoch > start_epoch,
\* calculate_interest returns the principal unchanged for every rate.
C8_ZeroDuration ==
    \A i \in Calls :
        (/\ InterestReturned(i)
         /\ call[i].args.epoch_duration = Zero
         /\ Gt(call[i].args.current_epoch, call[i].args.start_epoch))
            => result[i] = call[i].args.principal

\* a call over elapsed epochs of duration 0, at 4.0% on 1000 tokens, has returned
C8_Witness ==
    \E i \in Calls :
        /\ InterestReturned(i)
        /\ call[i].args.epoch_duration = Zero
        /\ Gt(call[i].args.current_epoch, call[i].args.start_epoch)
        /\ call[i].args.interest_rate = TestRate
        /\ call[i].args.principal = TestPrincipal

\* C9: every interest_rate from 0 to 31 converts to a rate_per_second r with
\* 0 <= r < 10^9, and for every such r and every dt >= 0 compute_multiplier
\* returns exactly BASE + (dt * r) // 10^9: the second- and third-order terms
\* contribute nothing.
C9_LinearBelowBase ==
    \A i \in Calls :
        /\ (/\ RateReturned(i)
            /\ Leq(Zero, call[i].apy)
            /\ Leq(call[i].apy, LinearRate))
               => Leq(Zero, result[i]) /\ Lt(result[i], BASE)
        /\ (/\ MultiplierReturned(i)
            /\ Leq(Zero, call[i].rate_per_second)
            /\ Lt(call[i].rate_per_second, BASE)
            /\ Leq(Zero, call[i].dt))
               => result[i] =
                      Add(BASE, FloorDiv(Mul(call[i].dt, call[i].rate_per_second),
                                         Lit(<<1, 0, 0, 0>>)))

\* interest_rate 31 has been converted, and compute_multiplier has returned
\* for that rate over one year
C9_Witness ==
    \E i, j \in Calls :
        /\ RateReturned(i)
        /\ call[i].apy = LinearRate
        /\ MultiplierReturned(j)
        /\ call[j].rate_per_second = result[i]
        /\ call[j].dt = SECONDS_PER_YEAR

\* C10: two calculate_interest calls that differ only in that both epochs of
\* one are those of the other moved by the same shift return the same value.
C10_ShiftInvariant ==
    \A i, j \in Calls :
        (/\ InterestReturned(i)
         /\ InterestReturned(j)
         /\ call[i].args.principal = call[j].args.principal
         /\ call[i].args.epoch_duration = call[j].args.epoch_duration
         /\ call[i].args.interest_rate = call[j].args.interest_rate
         /\ Sub(call[j].args.start_epoch, call[i].args.start_epoch)
                = Sub(call[j].args.current_epoch, call[i].args.current_epoch))
            => result[i] = result[j]

\* two calls over the same two epochs counted from different origins have
\* both returned, with interest accrued
C10_Witness ==
    \E i, j \in Calls :
        /\ InterestReturned(i)
        /\ InterestReturned(j)
        /\ call[i].args.principal = TestPrincipal
        /\ call[i].args.interest_rate = TestRate
        /\ call[i].args.epoch_duration = EPOCH_DURATION
        /\ call[j].args = Shifted(call[i].args, PyInt(1))
        /\ call[i].args.current_epoch = Add(call[i].args.start_epoch, PyInt(2))
        /\ Gt(result[i], TestPrincipal)

\* the arguments thread t was called with
ThreadArgs(t) ==
    Args(frame[t].ci.principal, frame[t].ci.start_epoch, frame[t].ci.current_epoch,
         frame[t].ci.epoch_duration, frame[t].ci.interest_rate)

\* what calculate_interest returns for each of the threads' arguments when it
\* runs alone, from its first line to its last
Alone ==
    [a \in ConcInputs |->
        calculate_interest(a.principal, a.start_epoch, a.current_epoch,
                           a.epoch_duration, a.interest_rate)]

\* C7: when calculate_interest calls run with their lines interleaved in any
\* order, each call returns exactly what it returns when run alone.
C7_CallsIndependent ==
    \A t \in Threads :
        pc[t] = "done" => ret[t] = Alone[ThreadArgs(t)]

\* one call has returned its accrued value while another, with other
\* arguments, holds its own multiplier and has yet to apply it
C7_Witness ==
    \E t, u \in Threads :
        /\ pc[t] = "done"
        /\ pc[u] = "L55"
        /\ frame[t].ci.interest_rate # frame[u].ci.interest_rate
        /\ frame[t].ci.multiplier # frame[u].ci.multiplier
        /\ ret[t] # frame[t].ci.principal

====
